---------------------------- MODULE Spec2Model ----------------------------
(***************************************************************************)
(* Model of the leaderboard service: the submit handler (rate limiter,    *)
(* validator, checksum verifier, score engine, ranking writes) and the    *)
(* leaderboard query handler, running against a Redis-like store whose    *)
(* single calls are atomic and whose keys may carry a time-to-live.       *)
(*                                                                         *)
(* Strings are sequences of character codes.  JSON values of a request    *)
(* are tagged records (JStr, JNum, JBool, Undef).  Numbers are kept in    *)
(* tenths (v10) so that a fractional run time such as 25.5 s is exact;    *)
(* inputs carry at most one fractional digit.                             *)
(***************************************************************************)
EXTENDS Integers, Sequences, FiniteSets, TLC

(***************************************************************************)
(* JSON values and JavaScript conversions                                  *)
(***************************************************************************)
Undef == [t |-> "undef"]
JStr(s) == [t |-> "str", s |-> s]
JNum(n) == [t |-> "num", v10 |-> n * 10]
JNum10(n10) == [t |-> "num", v10 |-> n10]
JBool(b) == [t |-> "bool", b |-> b]

\* A parsed JavaScript number: NaN, or a value v (an integer from parseInt, a
\* number of tenths from parseFloat).
NaN == [nan |-> TRUE, v |-> 0]
Num(n) == [nan |-> FALSE, v |-> n]
isNaN(x) == x.nan

IsDigit(c) == c >= 48 /\ c <= 57
IsSpace(c) == c \in {9, 10, 11, 12, 13, 32}
\* \w of a JavaScript regular expression: [A-Za-z0-9_]
IsWord(c) == \/ (c >= 65 /\ c <= 90)
             \/ (c >= 97 /\ c <= 122)
             \/ IsDigit(c)
             \/ c = 95

RECURSIVE DecNat(_)
DecNat(n) == IF n < 10 THEN <<48 + n>> ELSE DecNat(n \div 10) \o <<48 + (n % 10)>>

\* Number.prototype.toString of a number held in tenths: "25.5", "-1", "9".
Dec10(n10) ==
    LET a == IF n10 < 0 THEN -n10 ELSE n10
        body == DecNat(a \div 10) \o (IF a % 10 = 0 THEN <<>> ELSE <<46, 48 + (a % 10)>>)
    IN  IF n10 < 0 THEN <<45>> \o body ELSE body

\* String(n) of an integer.
DecInt(n) == Dec10(n * 10)

\* String(v)
ToStr(v) ==
    CASE v.t = "str" -> v.s
      [] v.t = "num" -> Dec10(v.v10)
      [] v.t = "bool" -> IF v.b THEN <<116, 114, 117, 101>> ELSE <<102, 97, 108, 115, 101>>
      [] OTHER -> <<117, 110, 100, 101, 102, 105, 110, 101, 100>>

\* JavaScript truthiness: !!v, and the left operand test of v || d.
Truthy(v) ==
    CASE v.t = "str" -> v.s # <<>>
      [] v.t = "num" -> v.v10 # 0
      [] v.t = "bool" -> v.b
      [] OTHER -> FALSE

RECURSIVE SkipSpace(_)
SkipSpace(s) == IF s # <<>> /\ IsSpace(Head(s)) THEN SkipSpace(Tail(s)) ELSE s

\* Value of the leading run of digits of s, continuing from acc.
RECURSIVE DigitsVal(_, _)
DigitsVal(s, acc) ==
    IF s # <<>> /\ IsDigit(Head(s))
    THEN DigitsVal(Tail(s), acc * 10 + (Head(s) - 48))
    ELSE acc

RECURSIVE DropDigits(_)
DropDigits(s) == IF s # <<>> /\ IsDigit(Head(s)) THEN DropDigits(Tail(s)) ELSE s

\* parseInt(v): String(v), leading white space skipped, an optional sign, then
\* the longest run of decimal digits; NaN when there is none.
parseInt(v) ==
    LET s0 == SkipSpace(ToStr(v))
        neg == s0 # <<>> /\ Head(s0) = 45
        s1 == IF s0 # <<>> /\ Head(s0) \in {43, 45} THEN Tail(s0) ELSE s0
    IN  IF s1 = <<>> \/ ~IsDigit(Head(s1))
        THEN NaN
        ELSE Num((IF neg THEN -1 ELSE 1) * DigitsVal(s1, 0))

\* parseFloat(v): as parseInt, with an optional fraction (first digit kept);
\* the value is in tenths.
parseFloat(v) ==
    LET s0 == SkipSpace(ToStr(v))
        neg == s0 # <<>> /\ Head(s0) = 45
        s1 == IF s0 # <<>> /\ Head(s0) \in {43, 45} THEN Tail(s0) ELSE s0
        r == DropDigits(s1)
        frac == IF Len(r) >= 2 /\ r[1] = 46 /\ IsDigit(r[2]) THEN r[2] - 48 ELSE 0
    IN  IF s1 = <<>> \/ ~IsDigit(Head(s1))
        THEN NaN
        ELSE Num((IF neg THEN -1 ELSE 1) * (DigitsVal(s1, 0) * 10 + frac))

\* Math.floor, Math.round and Math.floor(x / d) of a number in tenths.
FloorDiv(a, b) == IF a >= 0 THEN a \div b ELSE -((-a + b - 1) \div b)
MathFloor(n10) == FloorDiv(n10, 10)
MathRound(n10) == FloorDiv(n10 + 5, 10)

(***************************************************************************)
(* sanitizeName                                                            *)
(***************************************************************************)
\* Index of the first '>' of s, 0 when there is none.
RECURSIVE IndexOfGt(_, _)
IndexOfGt(s, i) ==
    IF i > Len(s) THEN 0 ELSE IF s[i] = 62 THEN i ELSE IndexOfGt(s, i + 1)

\* name.replace(/<[^>]*>/g, ''): every '<' that has a later '>' is removed
\* together with everything up to that '>'.
RECURSIVE StripTags(_)
StripTags(s) ==
    IF s = <<>> THEN <<>>
    ELSE IF Head(s) = 60 /\ IndexOfGt(s, 2) # 0
         THEN StripTags(SubSeq(s, IndexOfGt(s, 2) + 1, Len(s)))
         ELSE <<Head(s)>> \o StripTags(Tail(s))

\* .replace(/[^\w\s\-_.!]/g, '')
NameChar(c) == IsWord(c) \/ IsSpace(c) \/ c \in {45, 95, 46, 33}
StripChars(s) == SelectSeq(s, NameChar)

RECURSIVE TrimEnd(_)
TrimEnd(s) == IF s # <<>> /\ IsSpace(s[Len(s)]) THEN TrimEnd(SubSeq(s, 1, Len(s) - 1)) ELSE s
Trim(s) == TrimEnd(SkipSpace(s))

NAME_MIN == 2
NAME_MAX == 16

\* The empty string stands for a rejected name.
sanitizeName(name) ==
    IF name.t # "str" THEN <<>>
    ELSE LET clean == Trim(StripChars(StripTags(name.s)))
         IN  IF Len(clean) < NAME_MIN THEN <<>>
             ELSE IF Len(clean) > NAME_MAX THEN SubSeq(clean, 1, NAME_MAX)
             ELSE clean

ToLower(s) == [i \in 1..Len(s) |-> IF s[i] >= 65 /\ s[i] <= 90 THEN s[i] + 32 ELSE s[i]]
\* name.toLowerCase().trim()
NormalizeName(s) == Trim(ToLower(s))

(***************************************************************************)
(* computeChecksum: djb2 over the fields joined with '|'                   *)
(***************************************************************************)
SECRET == <<100, 99, 99, 95, 115, 117, 114, 118, 105, 118, 111, 114, 115, 95, 50, 48, 50, 52>>

RECURSIVE Join(_)
Join(parts) ==
    IF Len(parts) = 0 THEN <<>>
    ELSE IF Len(parts) = 1 THEN parts[1]
    ELSE parts[1] \o <<124>> \o Join(Tail(parts))

\* One round: hash = ((hash << 5) + hash) + c, then hash & hash (ToInt32).
\* The 32-bit value is kept as two 16-bit halves, so no product leaves the
\* range of 32-bit integer arithmetic; the halves are the bits of the int32.
HashStep(h, c) ==
    LET lo == h.lo * 33 + c
        hi == h.hi * 33 + lo \div 65536
    IN  [hi |-> hi % 65536, lo |-> lo % 65536]

\* The loop of lines 17-20 from index i on (h2 is evaluated before the next
\* round, as the loop does).
RECURSIVE HashFrom(_, _, _)
HashFrom(h, str, i) ==
    IF i > Len(str) THEN h
    ELSE LET h2 == HashStep(h, str[i])
         IN  IF h2.lo >= 0 THEN HashFrom(h2, str, i + 1) ELSE h2

HexDigit(d) == IF d < 10 THEN 48 + d ELSE 87 + d
RECURSIVE HexNat(_)
HexNat(n) == IF n < 16 THEN <<HexDigit(n)>> ELSE HexNat(n \div 16) \o <<HexDigit(n % 16)>>
Hex4(n) == <<HexDigit(n \div 4096), HexDigit((n \div 256) % 16),
             HexDigit((n \div 16) % 16), HexDigit(n % 16)>>
\* (hash >>> 0).toString(16)
ToHex(h) == IF h.hi = 0 THEN HexNat(h.lo) ELSE HexNat(h.hi) \o Hex4(h.lo)

\* Arguments as the handler passes them: name, classId and raceId strings,
\* the counts integers, time in tenths of a second.
computeChecksum(name, floor, kills, level, time, bossKills, bbEarned, viewers, classId, raceId) ==
    LET str == Join(<<name, DecInt(floor), DecInt(kills), DecInt(level),
                      DecInt(MathFloor(time)), DecInt(bossKills), DecInt(bbEarned),
                      DecInt(viewers), classId, raceId, SECRET>>)
    IN  ToHex(HashFrom([hi |-> 0, lo |-> 5381], str, 1))

(***************************************************************************)
(* computeScore                                                            *)
(***************************************************************************)
\* Mutant: the victory bonus left out.
computeScoreNoVictoryBonus(data) ==
      (data.floor * 1000)
    + (data.bossKills * 500)
    + (data.kills * 2)
    + (data.level * 50)
    + FloorDiv(data.viewers, 100)
    - FloorDiv(data.time, 100)

\* data: floor, kills, level, bossKills, viewers integers, time in tenths.
computeScore(data) ==
      (data.floor * 1000)
    + (data.bossKills * 500)
    + (data.kills * 2)
    + (data.level * 50)
    + FloorDiv(data.viewers, 100)
    + (IF data.victory THEN 5000 ELSE 0)
    - FloorDiv(data.time, 100)


(***************************************************************************)
(* Submissions: the request bodies the clients send                        *)
(***************************************************************************)
PUGILIST == <<112, 117, 103, 105, 108, 105, 115, 116>>
BERSERKER == <<98, 101, 114, 115, 101, 114, 107, 101, 114>>
ELEMENTALIST == <<101, 108, 101, 109, 101, 110, 116, 97, 108, 105, 115, 116>>
TRAPPER == <<116, 114, 97, 112, 112, 101, 114>>
BEASTMASTER == <<98, 101, 97, 115, 116, 109, 97, 115, 116, 101, 114>>
NECROMANCER == <<110, 101, 99, 114, 111, 109, 97, 110, 99, 101, 114>>
HUMAN == <<104, 117, 109, 97, 110>>
PRIMAL == <<112, 114, 105, 109, 97, 108>>
HALFELF == <<104, 97, 108, 102, 69, 108, 102>>
GOBLIN == <<103, 111, 98, 108, 105, 110>>
VALID_CLASSES == {PUGILIST, BERSERKER, ELEMENTALIST, TRAPPER, BEASTMASTER, NECROMANCER}
VALID_RACES == {HUMAN, PRIMAL, HALFELF, GOBLIN}

FLOOR_MIN == 1
FLOOR_MAX == 9
KILLS_MAX == 5000
LEVEL_MIN == 1
LEVEL_MAX == 60
TIME_MIN == 20
VICTORY_FLOOR == 9
VICTORY_BOSSES == 9

\* The fields the handler parses out of a body (lines 78-93).
Parse(body) ==
    [name |-> sanitizeName(body.name),
     floor |-> parseInt(body.floor),
     kills |-> parseInt(body.kills),
     level |-> parseInt(body.level),
     time |-> parseFloat(body.time),
     bossKills |-> parseInt(body.bossKills),
     bbEarned |-> parseInt(body.bbEarned),
     viewers |-> parseInt(body.viewers),
     classId |-> IF Truthy(body.classId) THEN ToStr(body.classId) ELSE <<>>,
     raceId |-> IF Truthy(body.raceId) THEN ToStr(body.raceId) ELSE <<>>,
     victory |-> Truthy(body.victory),
     checksum |-> IF Truthy(body.checksum) THEN ToStr(body.checksum) ELSE <<>>]

\* Mutant: a victory claim refused only when both the floor and the boss kills
\* fall short.
PlausibilityVictoryEither(f) ==
    IF isNaN(f.floor) \/ f.floor.v < FLOOR_MIN \/ f.floor.v > FLOOR_MAX THEN "floor"
    ELSE IF isNaN(f.kills) \/ f.kills.v < 0 \/ f.kills.v > KILLS_MAX THEN "kills"
    ELSE IF isNaN(f.level) \/ f.level.v < LEVEL_MIN \/ f.level.v > LEVEL_MAX THEN "level"
    ELSE IF isNaN(f.time) \/ f.time.v < TIME_MIN * 10 THEN "time"
    ELSE IF isNaN(f.bossKills) \/ f.bossKills.v < 0 \/ f.bossKills.v > f.floor.v THEN "bossKills"
    ELSE IF isNaN(f.bbEarned) \/ f.bbEarned.v < 0 THEN "bbEarned"
    ELSE IF isNaN(f.viewers) \/ f.viewers.v < 0 THEN "viewers"
    ELSE IF f.classId \notin VALID_CLASSES THEN "classId"
    ELSE IF f.raceId \notin VALID_RACES THEN "raceId"
    ELSE IF f.victory /\ (f.floor.v < VICTORY_FLOOR /\ f.bossKills.v < VICTORY_BOSSES) THEN "victory"
    ELSE "ok"

\* Mutant: boss kills no longer capped by the floor.
PlausibilityNoBossCap(f) ==
    IF isNaN(f.floor) \/ f.floor.v < FLOOR_MIN \/ f.floor.v > FLOOR_MAX THEN "floor"
    ELSE IF isNaN(f.kills) \/ f.kills.v < 0 \/ f.kills.v > KILLS_MAX THEN "kills"
    ELSE IF isNaN(f.level) \/ f.level.v < LEVEL_MIN \/ f.level.v > LEVEL_MAX THEN "level"
    ELSE IF isNaN(f.time) \/ f.time.v < TIME_MIN * 10 THEN "time"
    ELSE IF isNaN(f.bossKills) \/ f.bossKills.v < 0 THEN "bossKills"
    ELSE IF isNaN(f.bbEarned) \/ f.bbEarned.v < 0 THEN "bbEarned"
    ELSE IF isNaN(f.viewers) \/ f.viewers.v < 0 THEN "viewers"
    ELSE IF f.classId \notin VALID_CLASSES THEN "classId"
    ELSE IF f.raceId \notin VALID_RACES THEN "raceId"
    ELSE IF f.victory /\ (f.floor.v < VICTORY_FLOOR \/ f.bossKills.v < VICTORY_BOSSES) THEN "victory"
    ELSE "ok"

\* The plausibility checks in the handler's order; "ok" when all pass.
Plausibility(f) ==
    IF isNaN(f.floor) \/ f.floor.v < FLOOR_MIN \/ f.floor.v > FLOOR_MAX THEN "floor"
    ELSE IF isNaN(f.kills) \/ f.kills.v < 0 \/ f.kills.v > KILLS_MAX THEN "kills"
    ELSE IF isNaN(f.level) \/ f.level.v < LEVEL_MIN \/ f.level.v > LEVEL_MAX THEN "level"
    ELSE IF isNaN(f.time) \/ f.time.v < TIME_MIN * 10 THEN "time"
    ELSE IF isNaN(f.bossKills) \/ f.bossKills.v < 0 \/ f.bossKills.v > f.floor.v THEN "bossKills"
    ELSE IF isNaN(f.bbEarned) \/ f.bbEarned.v < 0 THEN "bbEarned"
    ELSE IF isNaN(f.viewers) \/ f.viewers.v < 0 THEN "viewers"
    ELSE IF f.classId \notin VALID_CLASSES THEN "classId"
    ELSE IF f.raceId \notin VALID_RACES THEN "raceId"
    ELSE IF f.victory /\ (f.floor.v < VICTORY_FLOOR \/ f.bossKills.v < VICTORY_BOSSES) THEN "victory"
    ELSE "ok"

ExpectedChecksum(f) ==
    computeChecksum(f.name, f.floor.v, f.kills.v, f.level.v, f.time.v, f.bossKills.v,
                    f.bbEarned.v, f.viewers.v, f.classId, f.raceId)

\* Mutant: the comparison of line 129 dropped.
ChecksumOkSkipped(f) == f.checksum = f.checksum

\* Line 129
ChecksumOk(f) == f.checksum = ExpectedChecksum(f)

\* The handler's answer to a body after the rate limiter (lines 72-131): the
\* error of the first failing check, or "ok".
Validate(body) ==
    IF body.t = "null" THEN "missing_body"
    ELSE LET f == Parse(body)
         IN  IF f.name = <<>> THEN "name"
             ELSE IF Plausibility(f) # "ok" THEN Plausibility(f)
             ELSE IF ~ChecksumOk(f) THEN "checksum"
             ELSE "ok"

ScoreData(f) ==
    [floor |-> f.floor.v, kills |-> f.kills.v, level |-> f.level.v, time |-> f.time.v,
     bossKills |-> f.bossKills.v, viewers |-> f.viewers.v, victory |-> f.victory]

\* runData of lines 142-149 (the timestamp, which nothing reads back, left out).
RunData(id, f) ==
    [id |-> id, name |-> f.name, score |-> computeScore(ScoreData(f)),
     floor |-> f.floor.v, kills |-> f.kills.v, level |-> f.level.v,
     time |-> MathRound(f.time.v), bossKills |-> f.bossKills.v,
     bbEarned |-> f.bbEarned.v, viewers |-> f.viewers.v,
     classId |-> f.classId, raceId |-> f.raceId,
     victory |-> IF f.victory THEN "true" ELSE "false"]

\* A body as the game client builds it: JSON numbers, and the checksum the
\* client computes with its own copy of the hash over the values it sends.
ClientBody(name, floor, kills, level, time10, bossKills, bbEarned, viewers, classId, raceId, victory) ==
    [t |-> "body", name |-> JStr(name), floor |-> JNum(floor), kills |-> JNum(kills),
     level |-> JNum(level), time |-> JNum10(time10), bossKills |-> JNum(bossKills),
     bbEarned |-> JNum(bbEarned), viewers |-> JNum(viewers),
     classId |-> JStr(classId), raceId |-> JStr(raceId), victory |-> JBool(victory),
     checksum |-> JStr(computeChecksum(name, floor, kills, level, time10, bossKills,
                                       bbEarned, viewers, classId, raceId))]

NoBody == [t |-> "null"]

NameBob == <<66, 111, 98>>
NameBobPadded == <<60, 98, 62, 66, 79, 66, 60, 47, 98, 62>>
NameCarl == <<67, 97, 114, 108>>

\* The bodies requests are drawn from.
\*  1-3  honest runs of three scores (2 by the same player as 1, in capitals
\*       inside a tag, with the checksum of the cleaned name)
\*  4    an honest victory; 5 the same run with the victory flag cleared
\*  6    run 1 with a checksum that is not its own
\*  7    more boss kills than floors; 8 a victory claimed on floor 8
\*  9    no body at all
\*  10   run 4 with a score of the client's own added to the body
Bodies ==
    <<ClientBody(NameBob, 3, 100, 5, 255, 2, 7, 150, TRAPPER, GOBLIN, FALSE),
      [ClientBody(<<66, 79, 66>>, 5, 200, 9, 900, 5, 0, 0, PUGILIST, HUMAN, FALSE)
          EXCEPT !.name = JStr(NameBobPadded)],
      ClientBody(NameCarl, 1, 0, 1, 200, 0, 0, 99, NECROMANCER, HALFELF, FALSE),
      ClientBody(NameCarl, 9, 500, 60, 6000, 9, 10, 300, PUGILIST, HUMAN, TRUE),
      [ClientBody(NameCarl, 9, 500, 60, 6000, 9, 10, 300, PUGILIST, HUMAN, TRUE)
          EXCEPT !.victory = JBool(FALSE)],
      [ClientBody(NameBob, 3, 100, 5, 255, 2, 7, 150, TRAPPER, GOBLIN, FALSE)
          EXCEPT !.checksum = JStr(<<100, 101, 97, 100>>)],
      ClientBody(NameBob, 3, 100, 5, 255, 4, 7, 150, TRAPPER, GOBLIN, FALSE),
      ClientBody(NameCarl, 8, 500, 60, 6000, 8, 10, 300, PUGILIST, HUMAN, TRUE),
      NoBody,
      [t |-> "body", name |-> JStr(NameCarl), floor |-> JNum(9), kills |-> JNum(500),
       level |-> JNum(60), time |-> JNum10(6000), bossKills |-> JNum(9),
       bbEarned |-> JNum(10), viewers |-> JNum(300), classId |-> JStr(PUGILIST),
       raceId |-> JStr(HUMAN), victory |-> JBool(TRUE),
       checksum |-> JStr(computeChecksum(NameCarl, 9, 500, 60, 6000, 9, 10, 300,
                                         PUGILIST, HUMAN)),
       score |-> JNum(999999)]>>

BodyIds == 1..Len(Bodies)

\* Bodies that differ from run 4 in floor, bossKills and victory only: every
\* floor and boss kill count from one below to one above the valid range.
ProbeInputs ==
    {<<floor, bossKills, victory>> :
        floor \in (FLOOR_MIN - 1)..(FLOOR_MAX + 1),
        bossKills \in (0 - 1)..(FLOOR_MAX + 1),
        victory \in BOOLEAN}

ProbeId(t) == 1000 + (100 * t[1]) + (2 * (t[2] + 1)) + (IF t[3] THEN 1 ELSE 0)

ProbeIds == {ProbeId(t) : t \in ProbeInputs}

ProbeInput(b) == CHOOSE t \in ProbeInputs : ProbeId(t) = b

ProbeBody(b) ==
    LET t == ProbeInput(b)
    IN  ClientBody(NameCarl, t[1], 500, 60, 6000, t[2], 10, 300, PUGILIST, HUMAN, t[3])

AllBodyIds == BodyIds \cup ProbeIds

\* The body behind a body id, computed once per id.
Body == [b \in AllBodyIds |-> IF b \in BodyIds THEN Bodies[b] ELSE ProbeBody(b)]

\* What the handler makes of each body, computed once per body.
Verdict == [b \in AllBodyIds |-> Validate(Body[b])]
Fields == [b \in AllBodyIds |-> IF Body[b].t = "null" THEN [name |-> <<>>] ELSE Parse(Body[b])]
Score == [b \in AllBodyIds |-> IF Verdict[b] \in {"ok", "checksum"}
                               THEN computeScore(ScoreData(Fields[b])) ELSE 0]

(***************************************************************************)
(* The store: Redis keys with atomic single calls                          *)
(***************************************************************************)
\* zrevrank's null (ranks are counted from 0).
Null == -1

\* redis.zrevrank(key, member): 0-based position of member in sorted set z (a
\* function member -> score) read from the highest score down; equal scores
\* in descending member order, as ZREVRANGE orders them.  Null when absent.
zrevrank(z, m) ==
    IF m \notin DOMAIN z THEN Null
    ELSE Cardinality({n \in DOMAIN z : z[n] > z[m] \/ (z[n] = z[m] /\ n > m)})

\* redis.zrange(key, start, stop, {rev: true}): the members at the 0-based
\* positions start..stop of the descending order; a negative index counts from
\* the end, a stop past the end is cut to the end.
zrange(z, start, stop) ==
    LET n == Cardinality(DOMAIN z)
        a0 == IF start < 0 THEN n + start ELSE start
        a == IF a0 < 0 THEN 0 ELSE a0
        b0 == IF stop < 0 THEN n + stop ELSE stop
        b == IF b0 >= n THEN n - 1 ELSE b0
        pos == [m \in DOMAIN z |-> zrevrank(z, m)]
    IN  IF a > b \/ a >= n THEN <<>>
        ELSE [k \in 1..(b - a + 1) |-> CHOOSE m \in DOMAIN z : pos[m] = a + k - 1]

zcard(z) == Cardinality(DOMAIN z)

\* redis.zadd(key, {score, member})
zadd(z, score, member) ==
    [n \in DOMAIN z \cup {member} |-> IF n = member THEN score ELSE z[n]]

Empty == [n \in {} |-> 0]

BURST_LIMIT == 2
DAILY_LIMIT == 20

VARIABLES
    rl,          \* rl:<ip>   burst counter per identity, 0 when the key is absent
    rlTTL,       \* whether rl:<ip> carries an expiry
    dl,          \* dl:<ip>   daily counter per identity
    dlTTL,
    runs,        \* run:<id>  hashes: id -> runData
    runTTL,      \* ids whose run:<id> carries an expiry
    leaderboard, \* sorted set 'leaderboard': id -> score
    player,      \* sorted sets player:<name>: normalized name -> (id -> score)
    nextId,      \* ids handed out so far + 1 (crypto.randomUUID never repeats)
    sub,         \* the submit requests in flight, one per handler slot
    qry,         \* the leaderboard request in flight
    hist         \* history kept for the properties, never read by the handlers

vars == <<rl, rlTTL, dl, dlTTL, runs, runTTL, leaderboard, player, nextId, sub, qry, hist>>
store == <<runs, runTTL, leaderboard, player, nextId>>
limiter == <<rl, rlTTL, dl, dlTTL>>

\* The client identities (first x-forwarded-for address, x-real-ip, or
\* 'unknown' when the headers are absent).
Identities == {"unknown", "10.0.0.7"}

NoResp == [status |-> 0, error |-> "", id |-> 0, score |-> 0, rank |-> Null]
IdleSub == [pc |-> "idle", ip |-> "", b |-> 0, current |-> 0, dailyCount |-> 0,
            id |-> 0, wrote |-> {}, ord |-> 0, resp |-> NoResp]

Reply(status, error) == [NoResp EXCEPT !.status = status, !.error = error]

(***************************************************************************)
(* The submit handler, one action per store call (each await is a point    *)
(* where other requests and key expiry interleave)                         *)
(***************************************************************************)
Set(p, rec) == sub' = [sub EXCEPT ![p] = rec]

\* History: a write to the store since the leaderboard request at hand began.
Disturbed(h) == [h EXCEPT !.quiet = (qry.pc = "idle") /\ @]
Done(s, resp) == [s EXCEPT !.pc = "done", !.resp = resp]

\* History: count of the submissions seen during the daily counter's life,
\* kept up to top + 1.
Bump(n, top) == IF n > top THEN n ELSE n + 1

\* Lines 47-52: a request arrives at a slot that serves none (its last
\* response, if any, has been sent).  Only POST goes on to the rate limiter.
Start(p, method, ip, b, maxReqs) ==
    /\ sub[p].pc \in {"idle", "done"}
    /\ maxReqs = 0 \/ hist.requests < maxReqs
    /\ Set(p, IF method = "OPTIONS" THEN Done(IdleSub, Reply(200, ""))
              ELSE IF method # "POST" THEN Done(IdleSub, Reply(405, "method"))
              ELSE [IdleSub EXCEPT !.pc = "rl_incr", !.ip = ip, !.b = b])
    /\ hist' = [hist EXCEPT !.requests = IF maxReqs = 0 THEN @ ELSE @ + 1]
    /\ UNCHANGED <<limiter, store, qry>>

\* Mutant: the burst comparison off by one.
BurstRejectedLate(current) == current > BURST_LIMIT + 1

\* Line 60
BurstRejected(current) == current > BURST_LIMIT
\* Mutant: the daily comparison off by one.
DailyRejectedLate(dailyCount) == dailyCount > DAILY_LIMIT + 1

\* Line 68
DailyRejected(dailyCount) == dailyCount > DAILY_LIMIT

\* Mutant: the daily counter left out on the way to validation.
BurstGateSkippingDaily(s) ==
    IF BurstRejected(s.current) THEN Done(s, Reply(429, "burst"))
    ELSE [s EXCEPT !.pc = "validate"]

\* Mutant: the daily counter incremented whatever the burst counter said.
BurstGateCountingDaily(s) == [s EXCEPT !.pc = "dl_incr"]

\* Lines 60-62, then on to the daily counter.
BurstGate(s) ==
    IF BurstRejected(s.current) THEN Done(s, Reply(429, "burst"))
    ELSE [s EXCEPT !.pc = "dl_incr"]

\* Lines 68-70, then on to validation.
DailyGate(s) ==
    IF DailyRejected(s.dailyCount) THEN Done(s, Reply(429, "daily"))
    ELSE [s EXCEPT !.pc = "validate"]

Passed(s) == IF s.pc = "dl_incr" THEN 1 ELSE 0

\* Line 58: redis.incr(rateLimitKey); the first increment goes on to set the
\* expiry, any other straight to the gate.
RlIncr(p, cap, dailyCap) ==
    LET s == sub[p]
        current == rl[s.ip] + 1
        ord == IF dl[s.ip] > 0 THEN Bump(hist.arrivals[s.ip], dailyCap) ELSE 0
        s1 == [s EXCEPT !.current = current, !.ord = ord]
        s2 == IF current = 1 THEN [s1 EXCEPT !.pc = "rl_expire"] ELSE BurstGate(s1)
    IN  /\ s.pc = "rl_incr"
        /\ rl[s.ip] < cap
        /\ rl' = [rl EXCEPT ![s.ip] = current]
        /\ Set(p, s2)
        /\ hist' = [hist EXCEPT !.passed[s.ip] = @ + Passed(s2),
                                !.arrivals[s.ip] = IF dl[s.ip] > 0 THEN ord ELSE @]
        /\ UNCHANGED <<rlTTL, dl, dlTTL, store, qry>>

\* Line 59: redis.expire(rateLimitKey, 30), then the gate.
RlExpire(p) ==
    LET s == sub[p]
        s2 == BurstGate(s)
    IN  /\ s.pc = "rl_expire"
        /\ rlTTL' = [rlTTL EXCEPT ![s.ip] = (rl[s.ip] > 0)]
        /\ Set(p, s2)
        /\ hist' = [hist EXCEPT !.passed[s.ip] = @ + Passed(s2)]
        /\ UNCHANGED <<rl, dl, dlTTL, store, qry>>

\* Line 66: redis.incr(dailyKey)
DlIncr(p, cap) ==
    LET s == sub[p]
        dailyCount == dl[s.ip] + 1
        ord == IF s.ord # 0 THEN s.ord
               ELSE IF dailyCount = 1 THEN 1 ELSE Bump(hist.arrivals[s.ip], cap)
        s1 == [s EXCEPT !.dailyCount = dailyCount, !.ord = ord]
    IN  /\ s.pc = "dl_incr"
        /\ dl[s.ip] < cap
        /\ dl' = [dl EXCEPT ![s.ip] = dailyCount]
        /\ Set(p, IF dailyCount = 1 THEN [s1 EXCEPT !.pc = "dl_expire"] ELSE DailyGate(s1))
        /\ hist' = [hist EXCEPT !.arrivals[s.ip] = IF s.ord # 0 THEN @ ELSE ord]
        /\ UNCHANGED <<rl, rlTTL, dlTTL, store, qry>>

\* Line 67: redis.expire(dailyKey, 86400), then the gate.
DlExpire(p) ==
    LET s == sub[p]
    IN  /\ s.pc = "dl_expire"
        /\ dlTTL' = [dlTTL EXCEPT ![s.ip] = (dl[s.ip] > 0)]
        /\ Set(p, DailyGate(s))
        /\ UNCHANGED <<rl, rlTTL, dl, store, qry, hist>>

\* Lines 72-131: the answer to a request that fails validation.
Rejection(s) == Done(s, Reply(400, Verdict[s.b]))

\* Lines 72-149: no store call.  A failed check answers 400; a valid run gets
\* its id (at most maxIds ids are handed out; 0: any number).
ValidateStep(p, maxIds) ==
    LET s == sub[p]
    IN  /\ s.pc = "validate"
        /\ IF Verdict[s.b] # "ok"
           THEN /\ Set(p, Rejection(s))
                /\ UNCHANGED nextId
           ELSE /\ maxIds = 0 \/ nextId <= maxIds
                /\ Set(p, [s EXCEPT !.pc = "hset", !.id = nextId])
                /\ nextId' = nextId + 1
        /\ UNCHANGED <<limiter, runs, runTTL, leaderboard, player, qry, hist>>

\* Line 151: redis.hset(`run:${id}`, runData)
Hset(p) ==
    LET s == sub[p]
    IN  /\ s.pc = "hset"
        /\ runs' = [i \in DOMAIN runs \cup {s.id} |->
                       IF i = s.id THEN RunData(s.id, Fields[s.b]) ELSE runs[i]]
        /\ Set(p, [s EXCEPT !.pc = "run_expire", !.wrote = @ \cup {"record"}])
        /\ hist' = Disturbed(hist)
        /\ UNCHANGED <<limiter, runTTL, leaderboard, player, nextId, qry>>

\* Line 152: redis.expire(`run:${id}`, 7776000)
RunExpire(p) ==
    LET s == sub[p]
    IN  /\ s.pc = "run_expire"
        /\ runTTL' = IF s.id \in DOMAIN runs THEN runTTL \cup {s.id} ELSE runTTL
        /\ Set(p, [s EXCEPT !.pc = "zadd_global"])
        /\ hist' = Disturbed(hist)
        /\ UNCHANGED <<limiter, runs, leaderboard, player, nextId, qry>>

\* Mutant: the global ranking not written.
ZaddGlobalSkipped(p) ==
    LET s == sub[p]
    IN  /\ s.pc = "zadd_global"
        /\ Set(p, [s EXCEPT !.pc = "zadd_player"])
        /\ hist' = Disturbed(hist)
        /\ UNCHANGED <<limiter, runs, runTTL, leaderboard, player, nextId, qry>>

\* Mutant: the ranking entry written with the client's kill count for score.
ZaddGlobalRawScore(p) ==
    LET s == sub[p]
    IN  /\ s.pc = "zadd_global"
        /\ leaderboard' = zadd(leaderboard, Fields[s.b].kills.v, s.id)
        /\ Set(p, [s EXCEPT !.pc = "zadd_player", !.wrote = @ \cup {"global"}])
        /\ hist' = Disturbed(hist)
        /\ UNCHANGED <<limiter, runs, runTTL, player, nextId, qry>>

\* Line 155: redis.zadd('leaderboard', { score, member: id })
ZaddGlobal(p) ==
    LET s == sub[p]
    IN  /\ s.pc = "zadd_global"
        /\ leaderboard' = zadd(leaderboard, Score[s.b], s.id)
        /\ Set(p, [s EXCEPT !.pc = "zadd_player", !.wrote = @ \cup {"global"}])
        /\ hist' = Disturbed(hist)
        /\ UNCHANGED <<limiter, runs, runTTL, player, nextId, qry>>

PlayerSet(name) == IF name \in DOMAIN player THEN player[name] ELSE Empty

\* Lines 158-159: redis.zadd(`player:${normalizedName}`, { score, member: id })
ZaddPlayer(p) ==
    LET s == sub[p]
        name == NormalizeName(Fields[s.b].name)
    IN  /\ s.pc = "zadd_player"
        /\ player' = [n \in DOMAIN player \cup {name} |->
                         IF n = name THEN zadd(PlayerSet(name), Score[s.b], s.id)
                         ELSE player[n]]
        /\ Set(p, [s EXCEPT !.pc = "zrevrank", !.wrote = @ \cup {"player"}])
        /\ hist' = Disturbed(hist)
        /\ UNCHANGED <<limiter, runs, runTTL, leaderboard, nextId, qry>>

\* Mutant: the 0-based rank passed on as it is.
RankOutZeroBased(rank) == IF rank # Null THEN rank ELSE Null

\* rank !== null ? rank + 1 : null
RankOut(rank) == IF rank # Null THEN rank + 1 ELSE Null

\* Lines 162-169: redis.zrevrank('leaderboard', id) and the 200 response.
Zrevrank(p) ==
    LET s == sub[p]
        rank == zrevrank(leaderboard, s.id)
    IN  /\ s.pc = "zrevrank"
        /\ Set(p, Done(s, [status |-> 200, error |-> "", id |-> s.id,
                           score |-> Score[s.b], rank |-> RankOut(rank)]))
        /\ hist' = [hist EXCEPT !.accepted = @ \cup {s.b}, !.succeeded = @ \cup {s.id}]
        /\ UNCHANGED <<limiter, store, qry>>

StoreCalls == {"rl_incr", "rl_expire", "dl_incr", "dl_expire", "hset", "run_expire",
               "zadd_global", "zadd_player", "zrevrank"}

\* Mutant: the catch swallows the error and answers success.
FailSilently(p) ==
    /\ sub[p].pc \in StoreCalls
    /\ Set(p, Done(sub[p], Reply(200, "")))
    /\ UNCHANGED <<limiter, store, qry, hist>>

\* Lines 170-173: a store call throws (the call has no effect); the catch
\* answers 500 and nothing already written is undone.
Fail(p) ==
    /\ sub[p].pc \in StoreCalls
    /\ Set(p, Done(sub[p], Reply(500, "internal")))
    /\ UNCHANGED <<limiter, store, qry, hist>>

(***************************************************************************)
(* Key expiry by the store                                                 *)
(***************************************************************************)
\* rl:<ip> reaches its 30 s time-to-live.
ExpireBurst(ip) ==
    /\ rl[ip] > 0 /\ rlTTL[ip]
    /\ rl' = [rl EXCEPT ![ip] = 0]
    /\ rlTTL' = [rlTTL EXCEPT ![ip] = FALSE]
    /\ hist' = [hist EXCEPT !.passed[ip] = 0]
    /\ UNCHANGED <<dl, dlTTL, store, sub, qry>>

\* dl:<ip> reaches its 24 h time-to-live.
ExpireDaily(ip) ==
    /\ dl[ip] > 0 /\ dlTTL[ip]
    /\ dl' = [dl EXCEPT ![ip] = 0]
    /\ dlTTL' = [dlTTL EXCEPT ![ip] = FALSE]
    /\ hist' = [hist EXCEPT !.arrivals[ip] = 0]
    /\ UNCHANGED <<rl, rlTTL, store, sub, qry>>

\* run:<id> reaches its 90 day time-to-live, long after the request that wrote
\* it has ended; the sorted sets keep the id.
ExpireRun(id) ==
    /\ id \in DOMAIN runs /\ id \in runTTL
    /\ \A p \in DOMAIN sub : sub[p].id = id => sub[p].pc = "done"
    /\ runs' = [i \in DOMAIN runs \ {id} |-> runs[i]]
    /\ runTTL' = runTTL \ {id}
    /\ hist' = [Disturbed(hist) EXCEPT !.expired = @ \cup {id}]
    /\ UNCHANGED <<limiter, leaderboard, player, nextId, sub, qry>>

(***************************************************************************)
(* The leaderboard handler                                                 *)
(***************************************************************************)
DEFAULT_LIMIT == 50
LIMIT_CAP == 100

Min(a, b) == IF a < b THEN a ELSE b

\* parseInt(x) || d
ParseIntOr(x, d) == IF isNaN(parseInt(x)) \/ parseInt(x).v = 0 THEN d ELSE parseInt(x).v

\* Line 21: Math.min(parseInt(req.query.limit) || 50, 100)
QueryLimit(raw) == Min(ParseIntOr(raw, DEFAULT_LIMIT), LIMIT_CAP)

\* Line 22: req.query.player || ''
QueryPlayer(raw) == IF Truthy(raw) THEN ToStr(raw) ELSE <<>>

NoBest == [rank |-> Null, id |-> 0, name |-> <<>>, score |-> 0]
IdleQry == [pc |-> "idle", limit |-> 0, player |-> <<>>, top |-> <<>>, i |-> 0,
            entries |-> <<>>, bestId |-> 0, best |-> NoBest, hasBest |-> FALSE,
            status |-> 0, total |-> 0]

\* Lines 44-60: a leaderboard entry hydrated from the hash data.
Entry(rank, id, data) ==
    [rank |-> rank, id |-> id, name |-> data.name,
     score |-> ParseIntOr(JNum(data.score), 0),
     floor |-> ParseIntOr(JNum(data.floor), 1),
     bossKills |-> ParseIntOr(JNum(data.bossKills), 0),
     victory |-> (data.victory = "true")]

\* Lines 74-84
BestEntry(bestRank, id, data) ==
    [rank |-> RankOut(bestRank), id |-> id, name |-> data.name,
     score |-> ParseIntOr(JNum(data.score), 0)]

\* Lines 10-22: a GET arrives with its query parameters.
QStart(method, limitRaw, playerRaw) ==
    /\ qry.pc \in {"idle", "done"}
    /\ qry' = IF method = "OPTIONS" THEN [IdleQry EXCEPT !.pc = "done", !.status = 200]
              ELSE IF method # "GET" THEN [IdleQry EXCEPT !.pc = "done", !.status = 405]
              ELSE [IdleQry EXCEPT !.pc = "zrange", !.limit = QueryLimit(limitRaw),
                                   !.player = QueryPlayer(playerRaw)]
    /\ hist' = [hist EXCEPT !.quiet = TRUE]
    /\ UNCHANGED <<limiter, store, sub>>

\* After the entries loop: the personal best when a player was named (line 66).
AfterEntries(q) == [q EXCEPT !.pc = IF q.player # <<>> THEN "best_zrange" ELSE "zcard"]

\* Mutant: the rev option dropped, the range read from the lowest score up.
QZrangeAscending ==
    LET ids == zrange([m \in DOMAIN leaderboard |-> 0 - leaderboard[m]], 0, qry.limit - 1)
        top == [k \in 1..Len(ids) |-> [member |-> ids[k], score |-> leaderboard[ids[k]]]]
        q == [qry EXCEPT !.top = top, !.i = 1]
    IN  /\ qry.pc = "zrange"
        /\ qry' = IF Len(top) = 0 THEN AfterEntries(q) ELSE [q EXCEPT !.pc = "hgetall"]
        /\ UNCHANGED <<limiter, store, sub, hist>>

\* Line 25: redis.zrange('leaderboard', 0, limit - 1, { rev: true, withScores: true });
\* the result is held as (member, score) pairs.
QZrange ==
    LET ids == zrange(leaderboard, 0, qry.limit - 1)
        top == [k \in 1..Len(ids) |-> [member |-> ids[k], score |-> leaderboard[ids[k]]]]
        q == [qry EXCEPT !.top = top, !.i = 1]
    IN  /\ qry.pc = "zrange"
        /\ qry' = IF Len(top) = 0 THEN AfterEntries(q) ELSE [q EXCEPT !.pc = "hgetall"]
        /\ UNCHANGED <<limiter, store, sub, hist>>

\* Mutant: an entry numbered by its position in the range read.
QHgetallRawRank ==
    LET id == qry.top[qry.i].member
        entries == IF id \in DOMAIN runs
                   THEN Append(qry.entries, Entry(qry.i, id, runs[id]))
                   ELSE qry.entries
        q == [qry EXCEPT !.entries = entries, !.i = @ + 1]
    IN  /\ qry.pc = "hgetall"
        /\ qry' = IF q.i > Len(q.top) THEN AfterEntries(q) ELSE q
        /\ UNCHANGED <<limiter, store, sub, hist>>

\* Lines 42-61: redis.hgetall(`run:${id}`) for the next item; an item without
\* data is skipped, the others are numbered in the order they are kept.
QHgetall ==
    LET id == qry.top[qry.i].member
        entries == IF id \in DOMAIN runs
                   THEN Append(qry.entries, Entry(Len(qry.entries) + 1, id, runs[id]))
                   ELSE qry.entries
        q == [qry EXCEPT !.entries = entries, !.i = @ + 1]
    IN  /\ qry.pc = "hgetall"
        /\ qry' = IF q.i > Len(q.top) THEN AfterEntries(q) ELSE q
        /\ UNCHANGED <<limiter, store, sub, hist>>

\* Mutant: the player's set read from its lowest score.
QBestZrangeLowest ==
    LET set == PlayerSet(NormalizeName(qry.player))
        bestResults == zrange([m \in DOMAIN set |-> 0 - set[m]], 0, 0)
    IN  /\ qry.pc = "best_zrange"
        /\ qry' = IF Len(bestResults) > 0
                  THEN [qry EXCEPT !.pc = "best_hgetall", !.bestId = bestResults[1]]
                  ELSE [qry EXCEPT !.pc = "zcard"]
        /\ UNCHANGED <<limiter, store, sub, hist>>

\* Lines 67-70: redis.zrange(`player:${normalized}`, 0, 0, { rev: true })
QBestZrange ==
    LET bestResults == zrange(PlayerSet(NormalizeName(qry.player)), 0, 0)
    IN  /\ qry.pc = "best_zrange"
        /\ qry' = IF Len(bestResults) > 0
                  THEN [qry EXCEPT !.pc = "best_hgetall", !.bestId = bestResults[1]]
                  ELSE [qry EXCEPT !.pc = "zcard"]
        /\ UNCHANGED <<limiter, store, sub, hist>>

\* Lines 71-72: redis.hgetall(`run:${bestId}`)
QBestHgetall ==
    /\ qry.pc = "best_hgetall"
    /\ qry' = [qry EXCEPT !.pc = IF qry.bestId \in DOMAIN runs THEN "best_rank" ELSE "zcard",
                          !.best = IF qry.bestId \in DOMAIN runs
                                   THEN BestEntry(Null, qry.bestId, runs[qry.bestId])
                                   ELSE NoBest]
    /\ UNCHANGED <<limiter, store, sub, hist>>

\* Mutant: the 0-based rank passed on as it is.
QBestRankZeroBased ==
    /\ qry.pc = "best_rank"
    /\ qry' = [qry EXCEPT !.pc = "zcard", !.hasBest = TRUE,
                          !.best.rank = zrevrank(leaderboard, qry.bestId)]
    /\ UNCHANGED <<limiter, store, sub, hist>>

\* Lines 73-84: redis.zrevrank('leaderboard', bestId)
QBestRank ==
    /\ qry.pc = "best_rank"
    /\ qry' = [qry EXCEPT !.pc = "zcard", !.hasBest = TRUE,
                          !.best.rank = RankOut(zrevrank(leaderboard, qry.bestId))]
    /\ UNCHANGED <<limiter, store, sub, hist>>

\* Lines 89-91: redis.zcard('leaderboard') and the 200 response.
QZcard ==
    /\ qry.pc = "zcard"
    /\ qry' = [qry EXCEPT !.pc = "done", !.status = 200, !.total = zcard(leaderboard)]
    /\ UNCHANGED <<limiter, store, sub, hist>>

QueryCalls == {"zrange", "hgetall", "best_zrange", "best_hgetall", "best_rank", "zcard"}

\* Lines 92-95: a store call throws; the catch answers 500.
QFail ==
    /\ qry.pc \in QueryCalls
    /\ qry' = [IdleQry EXCEPT !.pc = "done", !.status = 500]
    /\ UNCHANGED <<limiter, store, sub, hist>>

(***************************************************************************)
(* Specifications                                                          *)
(***************************************************************************)
\* Handler slots (requests served at the same time).
NumSlots == 3
\* Requests followed in the studies of the store and of the rejections.
MaxRequests == 2
\* Requests followed in the study of the burst gate.
MaxBurst == 3
\* The value up to which the daily counter is followed.
MaxDaily == 21
\* Runs in the largest ranking a leaderboard request is served from.
MaxBoard == 102

Slots == 1..NumSlots
Methods == {"POST", "GET", "OPTIONS"}

NoHist == [passed |-> [ip \in Identities |-> 0], arrivals |-> [ip \in Identities |-> 0],
           accepted |-> {}, succeeded |-> {}, expired |-> {}, quiet |-> TRUE,
           requests |-> 0]

\* A fresh deployment: an empty store, no request in flight.
Init ==
    /\ rl = [ip \in Identities |-> 0]
    /\ rlTTL = [ip \in Identities |-> FALSE]
    /\ dl = [ip \in Identities |-> 0]
    /\ dlTTL = [ip \in Identities |-> FALSE]
    /\ runs = Empty
    /\ runTTL = {}
    /\ leaderboard = Empty
    /\ player = Empty
    /\ nextId = 1
    /\ sub = [p \in Slots |-> IdleSub]
    /\ qry = IdleQry
    /\ hist = NoHist

\* The query parameters leaderboard requests are drawn from: limit absent,
\* "1", "7", "0", "-1", "abc", "150"; player absent or "Bob".
SmallLimits == {Undef, JStr(<<49>>)}
AnyLimits == {Undef, JStr(<<55>>), JStr(<<48>>), JStr(<<45, 49>>), JStr(<<97, 98, 99>>),
              JStr(<<49, 53, 48>>)}
PlayerParams == {Undef, JStr(NameBob)}

\* Requests arrive: at most maxReqs of them (0: any number).
Arrive(slots, ips, bodies, maxReqs) ==
    \E p \in slots, m \in Methods, ip \in ips, b \in bodies : Start(p, m, ip, b, maxReqs)

\* The rate limiter's store calls; the counters are followed up to the caps.
Limiter(slots, burstCap, dailyCap) ==
    \/ \E p \in slots : RlIncr(p, burstCap, dailyCap)
    \/ \E p \in slots : RlExpire(p)
    \/ \E p \in slots : DlIncr(p, dailyCap)
    \/ \E p \in slots : DlExpire(p)

LimiterExpiry ==
    \/ \E ip \in Identities : ExpireBurst(ip)
    \/ \E ip \in Identities : ExpireDaily(ip)

RunExpiry == \E id \in DOMAIN runs : ExpireRun(id)

Writes(slots) ==
    \/ \E p \in slots : Hset(p)
    \/ \E p \in slots : RunExpire(p)
    \/ \E p \in slots : ZaddGlobal(p)
    \/ \E p \in slots : ZaddPlayer(p)
    \/ \E p \in slots : Zrevrank(p)

QueryNext(methods, limits, players) ==
    \/ \E m \in methods, l \in limits, pl \in players : QStart(m, l, pl)
    \/ QZrange
    \/ QHgetall
    \/ QBestZrange
    \/ QBestHgetall
    \/ QBestRank
    \/ QZcard
    \/ QFail

\* Submissions against the store: two handlers at a time, a few requests of
\* one identity within one life of its counters, every store call may fail,
\* every record may expire.
Next ==
    \/ Arrive(1..2, {"unknown"}, {1, 4, 5, 6, 9}, MaxRequests)
    \/ Limiter(1..2, MaxRequests, MaxRequests)
    \/ \E p \in 1..2 : ValidateStep(p, MaxRequests)
    \/ Writes(1..2)
    \/ \E p \in 1..2 : Fail(p)
    \/ RunExpiry

Spec == Init /\ [][Next]_vars

\* Requests that fail one of the checks after the rate limiter (a checksum
\* that is not the body's own, too many boss kills, a victory on floor 8, no
\* body): two handlers at a time, two identities.
RejectNext ==
    \/ Arrive(1..2, Identities, {6, 7, 8, 9}, MaxRequests)
    \/ Limiter(1..2, MaxRequests, MaxRequests)
    \/ LimiterExpiry
    \/ \E p \in 1..2 : ValidateStep(p, 0)
    \/ \E p \in 1..2 : Fail(p)

RejectSpec == Init /\ [][RejectNext]_vars

\* The rate limiter under concurrency: up to MaxBurst requests of one identity
\* on all the slots, none with a body.
RateNext ==
    \/ Arrive(Slots, {"unknown"}, {9}, MaxBurst)
    \/ Limiter(Slots, MaxBurst, MaxBurst)
    \/ \E ip \in Identities : ExpireBurst(ip)
    \/ \E p \in Slots : ValidateStep(p, 0)
    \/ \E p \in Slots : Fail(p)

RateSpec == Init /\ [][RateNext]_vars

\* A day of one identity: any number of requests one after the other, no store
\* call failing, the daily counter followed up to MaxDaily.
DayNext ==
    \/ Arrive({1}, {"unknown"}, {9}, 0)
    \/ Limiter({1}, BURST_LIMIT + 1, MaxDaily)
    \/ LimiterExpiry
    \/ ValidateStep(1, 0)

DaySpec == Init /\ [][DayNext]_vars

(***************************************************************************)
(* Properties                                                              *)
(***************************************************************************)
AllWrites == {"record", "global", "player"}
Answered(p) == sub[p].pc = "done" /\ sub[p].b \in BodyIds

\* C1: a submit request that has ended either wrote the RunRecord and both
\* ranking entries and answered success with a rank, or wrote nothing.
SubmitAllOrNothing ==
    \A p \in Slots :
        Answered(p) =>
            \/ /\ sub[p].wrote = AllWrites
               /\ sub[p].resp.status = 200
               /\ sub[p].resp.rank # Null
            \/ sub[p].wrote = {}

\* The writes of a request whose store calls went through up to some point.
WritePrefixes == {{}, {"record"}, {"record", "global"}, AllWrites}

\* What a request recorded as written is in the store (or has expired there).
WroteIsStored(s) ==
    /\ "record" \in s.wrote => s.id \in DOMAIN runs \cup hist.expired
    /\ "global" \in s.wrote => s.id \in DOMAIN leaderboard
    /\ "player" \in s.wrote => \E n \in DOMAIN player : s.id \in DOMAIN player[n]

\* C1, amended: a request answered 400 or 429 wrote nothing; a request answered
\* 200 wrote the RunRecord and both ranking entries and returns a rank; a
\* request answered 500 wrote the writes that went through before the failing
\* call, in the order record, global entry, player entry.
SubmitWritesInOrder ==
    \A p \in Slots :
        Answered(p) =>
            /\ sub[p].resp.status \in {400, 429} => sub[p].wrote = {}
            /\ sub[p].resp.status = 200 =>
                   sub[p].wrote = AllWrites /\ sub[p].resp.rank # Null
            /\ sub[p].resp.status = 500 => sub[p].wrote \in WritePrefixes
            /\ sub[p].resp.status \in {200, 400, 429, 500}
            /\ WroteIsStored(sub[p])

SubmitPartialWitness ==
    \E p \in Slots :
        /\ Answered(p)
        /\ sub[p].resp.status = 500
        /\ sub[p].wrote = {"record", "global"}
        /\ sub[p].id \in DOMAIN leaderboard
        /\ \A n \in DOMAIN player : sub[p].id \notin DOMAIN player[n]

\* C2: every id in GlobalRanking has a RunRecord, and the ranking holds that
\* record's score.
RankingBackedByRecord ==
    \A id \in DOMAIN leaderboard :
        id \in DOMAIN runs /\ runs[id].score = leaderboard[id]

\* C2, amended: every id in GlobalRanking has a RunRecord whose score is the
\* score held in the ranking, until that record expires; the ranking keeps the
\* id after the expiry.
RankingBackedUntilExpiry ==
    \A id \in DOMAIN leaderboard :
        IF id \in DOMAIN runs THEN runs[id].score = leaderboard[id]
        ELSE id \in hist.expired

RankingOutlivesRecordWitness ==
    \E id, other \in DOMAIN leaderboard :
        /\ id \notin DOMAIN runs
        /\ id \in hist.expired
        /\ other \in DOMAIN runs
        /\ runs[other].score = leaderboard[other]

\* The fields that contribute to the score.
ScoreFields(b) == ScoreData([Fields[b] EXCEPT !.time = Num(FloorDiv(@.v, 100))])

\* C7: two accepted submissions that carry the same checksum have the same
\* score-contributing fields and the same score.
ChecksumBindsScore ==
    \A a, b \in hist.accepted :
        Fields[a].checksum = Fields[b].checksum =>
            ScoreFields(a) = ScoreFields(b) /\ Score[a] = Score[b]

\* The bodies whose checksum the server can recompute (name and fields pass the
\* checks before line 127) and whose client checksum differs from it.
Mismatched ==
    {b \in BodyIds :
        /\ Bodies[b].t # "null"
        /\ Fields[b].name # <<>>
        /\ Plausibility(Fields[b]) = "ok"
        /\ Fields[b].checksum # ExpectedChecksum(Fields[b])}

Mismatch(b) == b \in Mismatched

WriteStages == {"hset", "run_expire", "zadd_global", "zadd_player", "zrevrank"}

MismatchNeverWrites ==
    \A p \in Slots :
        Mismatch(sub[p].b) =>
            /\ sub[p].pc \notin WriteStages
            /\ sub[p].wrote = {}
            /\ sub[p].id = 0
            /\ sub[p].pc = "done" => sub[p].resp.status \in {400, 429, 500}

MismatchAnswered400 ==
    \A p \in Slots :
        (Mismatch(sub[p].b) /\ sub[p].pc = "validate" /\ sub'[p] # sub[p]) =>
            /\ sub'[p].pc = "done"
            /\ sub'[p].resp = Reply(400, "checksum")
            /\ UNCHANGED store

\* C8: a submission whose checksum differs from the server's recomputation is
\* answered 400 by the verifier and creates no RunRecord and no ranking entry.
ChecksumMismatchRejected == []MismatchNeverWrites /\ [][MismatchAnswered400]_vars

ChecksumMismatchWitness ==
    \E p \in Slots :
        /\ Mismatch(sub[p].b)
        /\ sub[p].pc = "done"
        /\ sub[p].resp = Reply(400, "checksum")
        /\ \E q \in Slots : sub[q].resp.status = 200

\* A store that holds n runs of one player, submitted over time with growing
\* kill counts; the rate-limit counters have expired.
BoardRun(i) == RunData(i, [Fields[3] EXCEPT !.kills = Num(i)])

BoardInit(n) ==
    /\ rl = [ip \in Identities |-> 0]
    /\ rlTTL = [ip \in Identities |-> FALSE]
    /\ dl = [ip \in Identities |-> 0]
    /\ dlTTL = [ip \in Identities |-> FALSE]
    /\ runs = [i \in 1..n |-> BoardRun(i)]
    /\ runTTL = 1..n
    /\ leaderboard = [i \in 1..n |-> BoardRun(i).score]
    /\ player = IF n = 0 THEN Empty
                ELSE [name \in {NormalizeName(Fields[3].name)} |->
                         [i \in 1..n |-> BoardRun(i).score]]
    /\ nextId = n + 1
    /\ sub = [p \in Slots |-> IdleSub]
    /\ qry = IdleQry
    /\ hist = [NoHist EXCEPT !.succeeded = 1..n]

QueryInit == \E n \in {0, 1, MaxBoard - 1, MaxBoard} : BoardInit(n)

\* Leaderboard requests with any limit against a store of up to MaxBoard runs.
QuerySpec == QueryInit /\ [][QueryNext(Methods, AnyLimits, {Undef, JStr(NameCarl)})]_vars

\* Submissions followed by leaderboard requests: one submit handler, runs of
\* different scores (1 and 2 by the same player), store failures and record
\* expiry.
BoardNext ==
    \/ Arrive({1}, {"unknown"}, {1, 2, 4}, MaxRequests)
    \/ Limiter({1}, MaxRequests, MaxRequests)
    \/ ValidateStep(1, MaxRequests)
    \/ Writes({1})
    \/ Fail(1)
    \/ RunExpiry
    \/ QueryNext({"GET"}, SmallLimits, PlayerParams)

BoardSpec == Init /\ [][BoardNext]_vars

\* C3: of the submissions of one identity that increment its burst counter
\* during one life of the counter, at most BURST_LIMIT get past the burst gate,
\* and the 3rd and every later one (the increment returns its place in the
\* order of arrival) is answered 429 with the burst error and goes no further.
BurstGateHolds ==
    /\ \A ip \in Identities : hist.passed[ip] <= BURST_LIMIT
    /\ \A p \in Slots :
           sub[p].current > BURST_LIMIT =>
               /\ sub[p].pc = "done"
               /\ sub[p].resp = Reply(429, "burst")
               /\ sub[p].dailyCount = 0

\* Three requests in flight at once, the third to arrive rejected.
BurstGateWitness ==
    \E p, q, r \in Slots :
        /\ sub[p].current = 1 /\ sub[p].pc = "dl_incr"
        /\ sub[q].current = 2 /\ sub[q].pc = "dl_incr"
        /\ sub[r].current = 3 /\ sub[r].resp = Reply(429, "burst")
        /\ hist.passed["unknown"] = BURST_LIMIT

\* C4: the 21st submission an identity makes within a day (here: the 21st to
\* reach the limiter since the daily counter was created, a span of at most
\* 24 hours) is rejected with the daily-limit error, unless the store fails.
TwentyFirstRejectedDaily ==
    \A p \in Slots :
        sub[p].ord = DAILY_LIMIT + 1 =>
            /\ sub[p].pc # "validate"
            /\ (sub[p].pc = "done" /\ sub[p].resp.status # 500) =>
                   sub[p].resp = Reply(429, "daily")

\* C4, amended: a submission whose increment of the daily counter returns more
\* than DAILY_LIMIT is answered 429 with the daily error, and a submission
\* that reaches validation was within both limits.
DailyGateHolds ==
    \A p \in Slots :
        /\ sub[p].dailyCount > DAILY_LIMIT =>
               sub[p].pc = "done" /\ sub[p].resp = Reply(429, "daily")
        /\ (sub[p].pc = "validate" \/ sub[p].resp.status = 400) =>
               /\ sub[p].current \in 1..BURST_LIMIT
               /\ sub[p].dailyCount \in 1..DAILY_LIMIT

\* The 21st increment rejected, after more than 21 submissions that day.
DailyGateWitness ==
    \E p \in Slots :
        /\ sub[p].dailyCount = DAILY_LIMIT + 1
        /\ sub[p].resp = Reply(429, "daily")
        /\ sub[p].ord > DAILY_LIMIT + 1

\* A request answered 400 has had both counters incremented for it.
RejectedPaidQuota ==
    \A p \in Slots :
        (sub[p].pc = "validate" \/ sub[p].resp.status = 400) =>
            sub[p].current >= 1 /\ sub[p].dailyCount >= 1

\* The step that rejects a request after the limiter answers 400 and leaves
\* the counters and their expiries as they are.
RejectionLeavesCounters ==
    \A p \in Slots :
        (sub[p].pc = "validate" /\ sub'[p] # sub[p]) =>
            /\ sub'[p].pc = "done"
            /\ sub'[p].resp = Reply(400, Verdict[sub[p].b])
            /\ sub'[p].current = sub[p].current
            /\ sub'[p].dailyCount = sub[p].dailyCount
            /\ UNCHANGED limiter

\* C5: a submit request rejected after the rate limiter has incremented the
\* burst and the daily counter of its identity, and the rejection neither
\* decrements nor resets a counter.
RejectionKeepsQuota == []RejectedPaidQuota /\ [][RejectionLeavesCounters]_vars

\* Two requests rejected for different reasons, both still counted.
RejectionKeepsQuotaWitness ==
    \E p, q \in Slots :
        /\ sub[p].resp = Reply(400, "checksum")
        /\ sub[q].resp = Reply(400, "victory")
        /\ rl["unknown"] = 2
        /\ dl["unknown"] = 2

\* C6: a rate-limit counter that exists carries an expiry, or the request that
\* created it is about to set one; so every counter expires.
CountersCarryExpiry ==
    \A ip \in Identities :
        /\ (rl[ip] > 0 /\ ~rlTTL[ip]) =>
               \E p \in Slots : sub[p].ip = ip /\ sub[p].pc = "rl_expire"
        /\ (dl[ip] > 0 /\ ~dlTTL[ip]) =>
               \E p \in Slots : sub[p].ip = ip /\ sub[p].pc = "dl_expire"

\* C9: whatever the limit parameter, a leaderboard response holds at most
\* LIMIT_CAP entries, and at most limit entries when the limit is positive.
EntriesWithinCap ==
    /\ Len(qry.entries) <= LIMIT_CAP
    /\ qry.limit > 0 => Len(qry.entries) <= qry.limit

\* A leaderboard request answered 200 with no write to the store since it
\* began, over a ranking that holds the successful submissions, all of
\* different scores and none expired.
SettledBoard ==
    /\ qry.pc = "done" /\ qry.status = 200
    /\ qry.limit >= 1
    /\ hist.quiet
    /\ hist.expired = {}
    /\ DOMAIN leaderboard = hist.succeeded
    /\ \A i, j \in DOMAIN leaderboard : i # j => leaderboard[i] # leaderboard[j]

\* C10: after N successful submissions of distinct scores and no expiry, a
\* leaderboard request with limit L returns min(L, N) entries, ranked 1, 2, ...
\* in non-increasing score order, and they are the highest-scoring runs.
TopEntriesCorrect ==
    SettledBoard =>
        LET e == qry.entries
            N == Cardinality(DOMAIN leaderboard)
            k == Min(qry.limit, N)
            shown == {e[i].id : i \in 1..Len(e)}
        IN  /\ Len(e) = k
            /\ Cardinality(shown) = k
            /\ \A i \in 1..Len(e) :
                   /\ e[i].rank = i
                   /\ e[i].id \in DOMAIN leaderboard
                   /\ e[i].score = leaderboard[e[i].id]
                   /\ \E b \in hist.accepted : Score[b] = e[i].score
            /\ \A i, j \in 1..Len(e) : i < j => e[i].score >= e[j].score
            /\ \A id \in DOMAIN leaderboard \ shown :
                   \A i \in 1..Len(e) : leaderboard[id] <= e[i].score
            /\ qry.total = N

\* Two runs in the ranking, a request with limit 1 answered with the better.
TopEntriesWitness ==
    /\ SettledBoard
    /\ Cardinality(DOMAIN leaderboard) = 2
    /\ qry.limit = 1
    /\ Len(qry.entries) = 1
    /\ \A id \in DOMAIN leaderboard : leaderboard[id] <= qry.entries[1].score

(***************************************************************************)
(* The validator on its own: one request, its body drawn from the probes   *)
(* and from runs 1, 4, 5, 7 and 10, followed through the whole handler     *)
(***************************************************************************)
ValidatorBodies == ProbeIds \cup {1, 4, 5, 7, 10}

ValidatorNext ==
    \/ Arrive({1}, {"unknown"}, ValidatorBodies, 1)
    \/ Limiter({1}, 1, 1)
    \/ ValidateStep(1, 0)
    \/ Writes({1})

ValidatorSpec == Init /\ [][ValidatorNext]_vars

\* The request has been answered and its body was a probe.
Probed(p) == sub[p].pc = "done" /\ sub[p].b \in ProbeIds

NothingStored == runs = Empty /\ leaderboard = Empty /\ player = Empty

\* C12: a submission with victory=true and otherwise valid fields is accepted
\* exactly when floor is 9 and bossKills is at least 9; with any other floor
\* and bossKills it is answered with the invalid-victory error and nothing is
\* stored.
VictoryNeedsFinalFloor ==
    \A p \in {1} :
        LET t == ProbeInput(sub[p].b)
        IN  Probed(p) /\ t[3] =>
                IF t[1] = VICTORY_FLOOR /\ t[2] >= VICTORY_BOSSES
                THEN sub[p].resp.status = 200
                ELSE sub[p].resp = Reply(400, "victory") /\ NothingStored

\* C12, amended: a submission with victory=true and otherwise valid fields is
\* accepted exactly when floor is 9 and bossKills is 9; a floor outside 1..9 is
\* answered with the floor error, boss kills outside 0..floor with the boss
\* kills error, every other floor and bossKills with the invalid-victory
\* error, and a refused submission stores nothing.
VictoryRuleAfterFieldChecks ==
    \A p \in {1} :
        LET t == ProbeInput(sub[p].b)
        IN  Probed(p) /\ t[3] =>
                IF t[1] < FLOOR_MIN \/ t[1] > FLOOR_MAX
                THEN sub[p].resp = Reply(400, "floor") /\ NothingStored
                ELSE IF t[2] < 0 \/ t[2] > t[1]
                THEN sub[p].resp = Reply(400, "bossKills") /\ NothingStored
                ELSE IF t[1] = VICTORY_FLOOR /\ t[2] = VICTORY_BOSSES
                THEN sub[p].resp.status = 200 /\ sub[p].id \in DOMAIN runs
                ELSE sub[p].resp = Reply(400, "victory") /\ NothingStored

\* A victory claimed on floor 9 with 8 boss kills, refused as an invalid
\* victory claim.
VictoryRefusedWitness ==
    /\ Probed(1)
    /\ ProbeInput(sub[1].b) = <<VICTORY_FLOOR, VICTORY_BOSSES - 1, TRUE>>
    /\ sub[1].resp = Reply(400, "victory")
    /\ NothingStored

\* The request has been answered and its body said more boss kills than floors.
BossKillsAboveFloor(p) ==
    /\ sub[p].pc = "done"
    /\ sub[p].b \in ValidatorBodies
    /\ Body[sub[p].b].bossKills.v10 > Body[sub[p].b].floor.v10

\* C13: a submission with bossKills > floor is refused as an invalid field,
\* so that every stored RunRecord has 0 <= bossKills <= floor <= 9.
BossKillsWithinFloor ==
    /\ \A id \in DOMAIN runs :
           /\ 0 <= runs[id].bossKills
           /\ runs[id].bossKills <= runs[id].floor
           /\ runs[id].floor <= FLOOR_MAX
    /\ \A p \in {1} :
           BossKillsAboveFloor(p) =>
               /\ sub[p].resp.status = 400
               /\ sub[p].resp.error \in {"floor", "bossKills"}
               /\ NothingStored

\* Run 7 (4 boss kills on floor 3) refused for its boss kills.
BossKillsRefusedWitness ==
    /\ BossKillsAboveFloor(1)
    /\ sub[1].b = 7
    /\ sub[1].resp = Reply(400, "bossKills")
    /\ NothingStored

\* The score formula over the numbers the client sent (in tenths).
ScoreOfBody(c) ==
      ((c.floor.v10 \div 10) * 1000)
    + ((c.bossKills.v10 \div 10) * 500)
    + ((c.kills.v10 \div 10) * 2)
    + ((c.level.v10 \div 10) * 50)
    + ((c.viewers.v10 \div 10) \div 100)
    + (IF c.victory = JBool(TRUE) THEN 5000 ELSE 0)
    - (c.time.v10 \div 100)

\* The submission has been accepted and answered.
Accepted(p) ==
    sub[p].pc = "done" /\ sub[p].b \in ValidatorBodies /\ sub[p].resp.status = 200

\* C14: the score of an accepted submission, in the RunRecord, in both
\* rankings and in the response, is floor*1000 + bossKills*500 + kills*2 +
\* level*50 + floor(viewers/100) + (victory ? 5000 : 0) - floor(time/10) of
\* the submitted numbers and of nothing else (a score the client sends is
\* ignored); it is 22443 for the worked example.
ScoreIsFormula ==
    \A p \in {1} :
        Accepted(p) =>
            LET s == sub[p]
                score == ScoreOfBody(Body[s.b])
                name == NormalizeName(Fields[s.b].name)
            IN  /\ s.resp.score = score
                /\ s.id \in DOMAIN runs /\ runs[s.id].score = score
                /\ s.id \in DOMAIN leaderboard /\ leaderboard[s.id] = score
                /\ name \in DOMAIN player
                /\ s.id \in DOMAIN player[name] /\ player[name][s.id] = score
                /\ s.b \in {4, 10} => score = 22443

\* The worked example, sent with a score of the client's own, answered 22443.
ScoreIsFormulaWitness ==
    /\ Accepted(1)
    /\ sub[1].b = 10
    /\ sub[1].resp.score = 22443
    /\ leaderboard[sub[1].id] = 22443

(***************************************************************************)
(* The personal best                                                       *)
(***************************************************************************)
\* The set of the player the request names.
NamedSet == PlayerSet(NormalizeName(qry.player))

\* A request that named a player has been answered, with no write to the store
\* since it began.
BestAnswered ==
    /\ qry.pc = "done" /\ qry.status = 200
    /\ qry.player # <<>>
    /\ hist.quiet

\* The place of a member in the descending order of the global ranking,
\* counted from 1.
PlaceOf(id) ==
    1 + Cardinality({m \in DOMAIN leaderboard :
                         \/ leaderboard[m] > leaderboard[id]
                         \/ leaderboard[m] = leaderboard[id] /\ m > id})

\* C11: after two successful submissions under names that normalize to the
\* same player (their records in the store), a leaderboard request for that
\* player returns as playerBest the run of the higher score, with the 1-based
\* place of that run's id in the descending global ranking as its rank.
PlayerBestIsHighest ==
    (/\ BestAnswered
     /\ Cardinality(DOMAIN NamedSet \cap hist.succeeded) >= 2
     /\ DOMAIN NamedSet \subseteq DOMAIN runs)
    => /\ qry.hasBest
       /\ qry.best.id \in DOMAIN NamedSet
       /\ \A id \in DOMAIN NamedSet : NamedSet[id] <= NamedSet[qry.best.id]
       /\ qry.best.score = NamedSet[qry.best.id]
       /\ qry.best.id \in DOMAIN leaderboard
       /\ qry.best.rank = PlaceOf(qry.best.id)

\* "Bob" and "<b>BOB</b>" both accepted, the request for "Bob" answered with
\* the second, higher-scoring run.
PlayerBestWitness ==
    /\ BestAnswered
    /\ hist.accepted = {1, 2}
    /\ Cardinality(DOMAIN NamedSet \cap hist.succeeded) = 2
    /\ DOMAIN NamedSet \subseteq DOMAIN runs
    /\ qry.hasBest
    /\ qry.best.score = Score[2]
    /\ \E id \in DOMAIN NamedSet : NamedSet[id] = Score[1]

(***************************************************************************)
(* Entries without a record                                                *)
(***************************************************************************)
\* A GET (its limit is never 0) has been answered, with no write to the store
\* and no expiry since it began.
QuietAnswer == qry.pc = "done" /\ qry.status = 200 /\ qry.limit # 0 /\ hist.quiet

RECURSIVE WithRecord(_)
\* The ids of a range that have a record, in the order of the range.
WithRecord(ids) ==
    IF ids = <<>> THEN <<>>
    ELSE IF Head(ids) \in DOMAIN runs THEN <<Head(ids)>> \o WithRecord(Tail(ids))
    ELSE WithRecord(Tail(ids))

\* C16: a leaderboard request skips a ranking entry whose RunRecord is missing
\* and still answers 200; the ranks of the k entries it returns are 1..k in
\* order, and the entries are the ranked ids that have a record.
MissingRecordsSkipped ==
    /\ \A i \in 1..Len(qry.entries) : qry.entries[i].rank = i
    /\ QuietAnswer =>
           LET kept == WithRecord(zrange(leaderboard, 0, qry.limit - 1))
           IN  /\ Len(qry.entries) = Len(kept)
               /\ \A i \in 1..Len(kept) : qry.entries[i].id = kept[i]

\* The best of two ranked runs has lost its record; the request returns the
\* other alone, as rank 1.
MissingRecordWitness ==
    /\ QuietAnswer
    /\ Len(qry.top) = 2
    /\ qry.top[1].member \notin DOMAIN runs
    /\ Len(qry.entries) = 1
    /\ qry.entries[1].id = qry.top[2].member
    /\ qry.entries[1].rank = 1

\* C18: every id in a player's ranking is in the global ranking, in every
\* state; hence a playerBest that is returned has a rank.
PlayerRankingWithinGlobal ==
    /\ \A n \in DOMAIN player : DOMAIN player[n] \subseteq DOMAIN leaderboard
    /\ qry.hasBest => qry.best.rank # Null /\ qry.best.rank >= 1

\* A playerBest returned with its rank, the player's ranking holding its id.
PlayerRankingWitness ==
    /\ qry.pc = "done" /\ qry.status = 200
    /\ qry.hasBest
    /\ qry.best.id \in DOMAIN NamedSet
    /\ qry.best.id \in DOMAIN leaderboard
    /\ qry.best.rank >= 1

\* No submit request is between its first and its last store call.
NoSubmitInFlight == \A p \in DOMAIN sub : sub[p].pc \in {"idle", "done"}

\* The response, given with no submit request in flight, holds an entry for
\* the run it returns as playerBest.
BestAmongEntries(i) ==
    /\ BestAnswered
    /\ NoSubmitInFlight
    /\ qry.hasBest
    /\ i \in 1..Len(qry.entries)
    /\ qry.entries[i].id = qry.best.id

\* C19: with no write in progress, an entry of the response with the id of
\* playerBest has the rank of playerBest, which is 1 + zrevrank of the id in
\* the global ranking.
RankSameInEveryView ==
    \A i \in 1..Len(qry.entries) :
        BestAmongEntries(i) =>
            /\ qry.entries[i].rank = qry.best.rank
            /\ qry.best.rank = PlaceOf(qry.best.id)

\* Every id ranked above the given one has its record.
RecordsAbove(id) ==
    \A m \in DOMAIN leaderboard : PlaceOf(m) < PlaceOf(id) => m \in DOMAIN runs

\* C19, amended: with no write in progress, playerBest's rank is 1 + zrevrank
\* of its id in the global ranking, and an entry of the response with that id
\* has the same rank provided every id ranked above it has its record.
RankSameWhenRecordsAbove ==
    \A i \in 1..Len(qry.entries) :
        BestAmongEntries(i) =>
            /\ qry.best.rank = PlaceOf(qry.best.id)
            /\ RecordsAbove(qry.best.id) => qry.entries[i].rank = qry.best.rank

\* Carl's run above Bob's, both with their records: Bob's run is entry 2 and
\* playerBest of rank 2.
RankSameWitness ==
    /\ BestAmongEntries(2)
    /\ RecordsAbove(qry.best.id)
    /\ qry.best.rank = 2
    /\ qry.entries[2].rank = 2

\* The player's runs that have a record.
LiveRuns == DOMAIN NamedSet \cap DOMAIN runs

\* C20: a leaderboard request naming a player who has a run with a record
\* returns a playerBest, the highest-scoring of the player's runs that have
\* a record; the expiry of a higher-scoring record does not hide the others.
PlayerBestSurvivesExpiry ==
    (BestAnswered /\ LiveRuns # {}) =>
        /\ qry.hasBest
        /\ qry.best.id \in LiveRuns
        /\ \A id \in LiveRuns : NamedSet[id] <= NamedSet[qry.best.id]

(***************************************************************************)
(* The rank in the submit response                                         *)
(***************************************************************************)
\* The submit request has been answered 200 with its run's id.
RankedResponse(p) ==
    sub[p].pc = "done" /\ sub[p].b \in BodyIds /\ sub[p].resp.status = 200

RankWithinBoard ==
    \A p \in DOMAIN sub :
        RankedResponse(p) =>
            /\ sub[p].resp.rank # Null
            /\ 1 <= sub[p].resp.rank
            /\ sub[p].resp.rank <= zcard(leaderboard)

\* The step that reads the rank back and answers.
RankReadStep ==
    \A p \in DOMAIN sub :
        (sub[p].pc = "zrevrank" /\ sub'[p].pc = "done" /\ sub'[p].resp.status = 200) =>
            /\ sub[p].id \in DOMAIN leaderboard
            /\ sub'[p].resp.rank = PlaceOf(sub[p].id)
            /\ sub'[p].resp.id = sub[p].id

\* C15: every 200 response of the submit handler carries a rank that is not
\* null: the 1-based place of the new id in the descending global ranking at
\* the moment it is read back, between 1 and the ranking's cardinality,
\* whatever other submissions do in the meantime.
RankReadBack == []RankWithinBoard /\ [][RankReadStep]_vars

\* A run answered as rank 2 while the request that wrote the run above it is
\* still on its way.
RankReadBackWitness ==
    \E p, q \in DOMAIN sub :
        /\ p # q
        /\ RankedResponse(p)
        /\ sub[p].resp.rank = 2
        /\ sub[q].pc \in {"zadd_player", "zrevrank"}
        /\ leaderboard[sub[q].id] > leaderboard[sub[p].id]

(***************************************************************************)
(* The daily counter and the burst gate                                    *)
(***************************************************************************)
\* No submit request of the identity is under way.
AtRest(ip) == \A p \in DOMAIN sub : sub[p].ip = ip => sub[p].pc \in {"idle", "done"}

\* C17: every POST of an identity increments its daily counter, a request
\* rejected by the burst limit included, so that the daily counter equals the
\* number of submissions received from the identity during its window.
DailyCountsEveryPost ==
    /\ \A p \in DOMAIN sub :
           sub[p].resp = Reply(429, "burst") => sub[p].dailyCount >= 1
    /\ \A ip \in Identities :
           (AtRest(ip) /\ dl[ip] > 0 /\ hist.arrivals[ip] <= DAILY_LIMIT) =>
               dl[ip] = hist.arrivals[ip]

\* A request rejected by the burst limit got no daily count, and a request
\* that got one was within the burst limit.
DailyCountsPassed ==
    \A p \in DOMAIN sub :
        /\ sub[p].resp = Reply(429, "burst") => sub[p].dailyCount = 0
        /\ sub[p].dailyCount >= 1 => sub[p].current \in 1..BURST_LIMIT

\* A step changes a daily counter only by expiry or by the increment of a
\* request the burst gate let through, and the step that rejects a request
\* for its burst count leaves the daily counters alone.
DailyCountStep ==
    /\ \A ip \in Identities :
           dl'[ip] # dl[ip] =>
               \/ dl'[ip] = 0
               \/ /\ dl'[ip] = dl[ip] + 1
                  /\ \E p \in DOMAIN sub :
                         /\ sub[p].pc = "dl_incr" /\ sub[p].ip = ip
                         /\ sub[p].current \in 1..BURST_LIMIT
                         /\ sub'[p].dailyCount = dl'[ip]
    /\ \A p \in DOMAIN sub :
           (sub'[p].resp = Reply(429, "burst") /\ sub[p].resp # Reply(429, "burst")) =>
               dl' = dl /\ dlTTL' = dlTTL

\* C17, amended: every POST of an identity that gets past the burst check
\* increments its daily counter once; a request rejected by the burst limit
\* does not increment it, so that the daily counter counts the submissions
\* that passed the burst gate, not the submissions received.
DailyCountsPassedPosts == []DailyCountsPassed /\ [][DailyCountStep]_vars

\* Three submissions in a burst: the third rejected, the daily counter at 2.
DailyCountsWitness ==
    /\ sub[1].resp = Reply(429, "burst")
    /\ sub[1].dailyCount = 0
    /\ dl[sub[1].ip] = 2
    /\ hist.arrivals[sub[1].ip] = 3

=============================================================================
